---- MODULE Spec2Model ----
(***************************************************************************)
(* Model of the ask-bi retrieval-augmented question-answering assistant:   *)
(* the retrieval engine qa_search (src/utils/qa_chain.py), its direct      *)
(* callers (src/evaluation.py, the __main__ of qa_chain.py), the          *)
(* Streamlit session of src/app.py, and the two offline jobs: the          *)
(* aggregation job (src/create_statistical_summary.py) and the indexing    *)
(* job (src/index_documents.py).                                           *)
(*                                                                         *)
(* Python strings are sequences of one-character strings, so that          *)
(* concatenation, substring and repr() are computed, not assumed.          *)
(* Python dicts are functions from key strings to tagged values; a nested  *)
(* dict is held by reference (an id of the heap), as in Python.            *)
(***************************************************************************)
EXTENDS Integers, Sequences, FiniteSets, TLC

VARIABLES
    heap,                  \* id -> dict: the metadata objects owned by the index
    call,                  \* SpecQA: the arguments of the current direct qa_search call
    ret,                   \* SpecQA: what that call gave back to its caller
    sent,                  \* SpecQA: what that call handed to the chain and the LLM
    pc,                    \* SpecQA: "idle" | "returned" | "mutated"
    messages,              \* st.session_state.messages
    last_query,            \* st.session_state.last_query
    should_process_query,  \* st.session_state.should_process_query
    vectorstore,           \* st.session_state.vectorstore
    run,                   \* what the last script run of app.py did
    failures,              \* number of queries of the session that ended in st.error
    csv,                   \* SpecSummary: the Customer_Age column of the sales CSV
    summary,               \* SpecSummary: what the aggregation job did with it
    disk,                  \* SpecIndex: the persisted vector index
    indexing               \* SpecIndex: the indexing job (position, data, calls made)

qaVars  == <<call, ret, sent, pc>>
appVars == <<messages, last_query, should_process_query, vectorstore, run, failures>>
offVars == <<csv, summary, disk, indexing>>
vars    == <<heap, call, ret, sent, pc, messages, last_query, should_process_query,
             vectorstore, run, failures, csv, summary, disk, indexing>>

----------------------------------------------------------------------------
(* Bounds of the model *)

\* number of documents the largest index holds
MaxDocs == 3
\* largest k a direct caller passes
MaxK == 3
\* longest history a direct caller passes
MaxHist == 3
\* failed queries explored in one session
MaxFailures == 2

----------------------------------------------------------------------------
(* Strings *)

Min(a, b) == IF a <= b THEN a ELSE b

\* s occurs in t as a contiguous substring
Contains(t, s) ==
    \E i \in 0..(Len(t) - Len(s)) : SubSeq(t, i + 1, i + Len(s)) = s

RECURSIVE Join(_, _)
\* sep.join(parts)
Join(parts, sep) ==
    IF parts = <<>> THEN <<>>
    ELSE IF Len(parts) = 1 THEN parts[1]
    ELSE parts[1] \o sep \o Join(Tail(parts), sep)

\* what repr writes for the character c inside the quotes q
EscapeChar(c, q) ==
    CASE c = "\n" -> <<"\\", "n">>
      [] c = "\\" -> <<"\\", "\\">>
      [] c = q    -> <<"\\", q>>
      [] OTHER    -> <<c>>

RECURSIVE Flatten(_, _, _)
\* pieces[lo] \o ... \o pieces[hi]
Flatten(pieces, lo, hi) ==
    IF lo > hi THEN <<>>
    ELSE IF lo = hi THEN pieces[lo]
    ELSE LET mid == (lo + hi) \div 2
         IN  Flatten(pieces, lo, mid) \o Flatten(pieces, mid + 1, hi)

\* the body of repr(s) for a str s quoted with q
EscapeChars(s, q) ==
    Flatten([i \in DOMAIN s |-> EscapeChar(s[i], q)], 1, Len(s))

\* repr(s) of a Python str: single quotes, unless s holds ' and no "
PyReprStr(s) ==
    LET hasS == \E i \in DOMAIN s : s[i] = "'"
        hasD == \E i \in DOMAIN s : s[i] = "\""
        q    == IF hasS /\ ~hasD THEN "\"" ELSE "'"
    IN  <<q>> \o EscapeChars(s, q) \o <<q>>

StrVal(s)  == [tag |-> "str", s |-> s]
DictVal(d) == [tag |-> "dict", items |-> d]

RECURSIVE ReprItems(_)
ReprItems(items) ==
    IF items = <<>> THEN <<>>
    ELSE PyReprStr(items[1].key) \o <<":", " ">> \o PyReprStr(items[1].value)
         \o (IF Len(items) > 1 THEN <<",", " ">> ELSE <<>>)
         \o ReprItems(Tail(items))

\* str(v) as an f-string template substitutes it: a str is itself, a dict of
\* strings is its repr
PyStr(v) ==
    IF v.tag = "str" THEN v.s
    ELSE <<"{">> \o ReprItems(v.items) \o <<"}">>

----------------------------------------------------------------------------
(* Documents, their metadata and the index *)

NumV(n) == [tag |-> "num", n |-> n]
TxtV(s) == [tag |-> "txt", s |-> s]
RefV(i) == [tag |-> "ref", id |-> i]

EmptyDict == [key \in {} |-> NumV(0)]

MetaId(i) == 2 * i - 1
RawId(i)  == 2 * i

DocTypes == <<"time_period", "product", "overall">>

\* the metadata the aggregator writes for document i: a type, the nested
\* raw_data summary and a plot path; every third document carries none
DocMetadata(i) ==
    IF i % 3 = 0 THEN EmptyDict
    ELSE [key \in {"type", "raw_data", "plot_path"} |->
            CASE key = "type"      -> TxtV(DocTypes[((i - 1) % 3) + 1])
              [] key = "raw_data"  -> RefV(RawId(i))
              [] key = "plot_path" -> TxtV("plot.png")]

DocRawData(i) == [key \in {"total_records"} |-> NumV(i)]

InitHeap ==
    [id \in 1..(2 * MaxDocs) |->
        IF id % 2 = 1 THEN DocMetadata((id + 1) \div 2) ELSE DocRawData(id \div 2)]

DocText == <<"t", "p", "o">>

\* the Document built from record i of the document file
Document(i) ==
    [page_content     |-> <<DocText[((i - 1) % 3) + 1]>>,
     metadata         |-> MetaId(i),
     hasScore         |-> (i % 2 = 0),
     similarity_score |-> i]

NoneStore == [isNone |-> TRUE, docs |-> <<>>]
StoreOf(n) == [isNone |-> FALSE, docs |-> [i \in 1..n |-> Document(i)]]
Stores == {NoneStore} \cup {StoreOf(n) : n \in 0..MaxDocs}

Q1 == <<"q", "1">>
Q2 == <<"q", "'", "2">>
Queries == {Q1, Q2}

Reverse(s) == [i \in 1..Len(s) |-> s[Len(s) + 1 - i]]

\* the store's similarity ranking of its documents for a query
Rank(docs, query) == IF query = Q1 THEN docs ELSE Reverse(docs)

\* similarity search: the k nearest documents, best match first
Search(store, query, k) ==
    LET ranked == Rank(store.docs, query)
    IN  SubSeq(ranked, 1, Min(k, Len(ranked)))

----------------------------------------------------------------------------
(* History rendering *)

Turn(role, content) == [role |-> role, content |-> content]

NoneHistory == [isNone |-> TRUE, items |-> <<>>]
ListHistory(items) == [isNone |-> FALSE, items |-> items]

UserLabel      == <<"U", "s", "e", "r">>
AssistantLabel == <<"A", "s", "s", "i", "s", "t", "a", "n", "t">>

RECURSIVE RenderFrom(_, _, _)
\* the loop of chat_history_to_str from message i on, text being the block
\* accumulated so far
RenderFrom(items, i, text) ==
    IF i > Len(items) THEN text
    ELSE LET role == IF items[i].role = "user" THEN UserLabel ELSE AssistantLabel
         IN  RenderFrom(items, i + 1,
                        text \o role \o <<":", " ">> \o items[i].content
                             \o <<"\n", "\n">>)

\* chat_history_to_str that renders a missing history as str(None)
chat_history_to_str_NoneText(chat_history) ==
    IF chat_history.isNone THEN <<"N", "o", "n", "e">>
    ELSE RenderFrom(chat_history.items, 1, <<>>)

chat_history_to_str(chat_history) ==
    IF ~chat_history.isNone /\ chat_history.items # <<>>
           /\ Len(chat_history.items) > 0
    THEN RenderFrom(chat_history.items, 1, <<>>)
    ELSE <<>>

----------------------------------------------------------------------------
(* The outside world of one qa_search call: what the vector store and the  *)
(* generation service do when they are asked                                *)

CauseDown  == <<"d", "o", "w", "n">>
CauseQuota == <<"q", "u", "o", "t", "a">>
AnswerText == <<"4", "2">>

Ok(text)    == [ok |-> TRUE, cause |-> <<>>, text |-> text]
Fails(cause) == [ok |-> FALSE, cause |-> cause, text |-> <<>>]

\* search1: retriever.invoke of line 90; search2: retriever.invoke inside the
\* chain (line 79); llm: the generation call of the chain
\* a step after a failed one is never asked, so its outcome is left at Ok
Envs ==
    { env \in [search1 : {Ok(<<>>), Fails(CauseDown)},
               search2 : {Ok(<<>>), Fails(CauseDown)},
               llm     : {Ok(AnswerText), Fails(CauseQuota)}] :
        /\ ~env.search1.ok => env.search2.ok
        /\ (~env.search1.ok \/ ~env.search2.ok) => env.llm.ok }

----------------------------------------------------------------------------
(* qa_search *)

RECURSIVE ExtractFrom(_, _, _)
\* the loop of lines 93-102 from document i on
ExtractFrom(docs, i, docs_metadata) ==
    IF i > Len(docs) THEN docs_metadata
    ELSE LET doc  == docs[i]
             meta == IF DOMAIN heap[doc.metadata] # {}
                     THEN heap[doc.metadata]      \* dict(doc.metadata): same values
                     ELSE EmptyDict
             scored == IF doc.hasScore
                       THEN ("similarity_score" :> NumV(doc.similarity_score)) @@ meta
                       ELSE meta
         IN  ExtractFrom(docs, i + 1, Append(docs_metadata, scored))

\* ExtractMetadata that lists the entries last document first
ExtractMetadata_Reversed(docs) == Reverse(ExtractFrom(docs, 1, <<>>))

ExtractMetadata(docs) == ExtractFrom(docs, 1, <<>>)

Lit(s) == [kind |-> "lit", name |-> "", text |-> <<s>>]
Var(n) == [kind |-> "var", name |-> n, text |-> <<>>]

\* the prompt template of lines 50-69, cut at its placeholders
Template ==
    << Lit("You are a helpful assistant that provides accurate information based on the given context."),
       Lit("Chat History:"), Var("chat_history"),
       Lit("Context:"),      Var("context"),
       Lit("Question:"),     Var("question"),
       Lit("Answer the question based only on the provided context. [...] Avoid repetition and long paragraphs.") >>

\* prompt.format(**values): every placeholder replaced by str(value)
FormatPrompt(template, values) ==
    [i \in DOMAIN template |->
        IF template[i].kind = "var"
        THEN [template[i] EXCEPT !.text = PyStr(values[template[i].name])]
        ELSE template[i]]

KeyQuestion    == <<"q", "u", "e", "s", "t", "i", "o", "n">>
KeyChatHistory == <<"c", "h", "a", "t", "_", "h", "i", "s", "t", "o", "r", "y">>

\* the dict handed to retrieval_chain.invoke (lines 105-110)
ChainInput(query, chat_history) ==
    DictVal(<< [key |-> KeyQuestion,    value |-> query],
               [key |-> KeyChatHistory, value |-> chat_history_to_str(chat_history)] >>)

ItemOf(d, key) ==
    LET i == CHOOSE j \in DOMAIN d.items : d.items[j].key = key
    IN  d.items[i].value

RunnablePassthrough(x) == x

\* create_stuff_documents_chain: the documents' page_content joined by a
\* blank line
StuffDocuments(docs) ==
    Join([i \in DOMAIN docs |-> docs[i].page_content], <<"\n", "\n">>)

\* the values the map of lines 78-82 computes from the chain's input x
ChainValues(x, context_docs) ==
    [context      |-> StrVal(StuffDocuments(context_docs)),
     question     |-> RunnablePassthrough(x),
     chat_history |-> RunnablePassthrough(x)]

ErrorPrefix ==
    <<"E", "r", "r", "o", "r", " ", "q", "u", "e", "r", "y", "i", "n", "g", " ",
      "t", "h", "e", " ", "m", "o", "d", "e", "l", ":", " ">>

\* ErrorResult that hands back the metadata collected before the failure
ErrorResult_Partial(e, docs_metadata) ==
    LET error_message == ErrorPrefix \o e
    IN  [answer            |-> error_message,
         document_metadata |-> docs_metadata,
         raw_answer        |-> error_message,
         error             |-> e]

\* the result of the except branch (lines 120-127), e being str(e)
ErrorResult(e, docs_metadata) ==
    LET error_message == ErrorPrefix \o e
    IN  [answer            |-> error_message,
         document_metadata |-> <<>>,
         raw_answer        |-> error_message,
         error             |-> e]

\* SuccessResult that reports the number of documents asked for
SuccessResult_CountK(answer, docs_metadata, retrieved_docs, k) ==
    [answer            |-> answer,
     document_metadata |-> docs_metadata,
     raw_answer        |-> answer,
     retrieved_count   |-> k]

\* the result of lines 113-118
SuccessResult(answer, docs_metadata, retrieved_docs, k) ==
    [answer            |-> answer,
     document_metadata |-> docs_metadata,
     raw_answer        |-> answer,
     retrieved_count   |-> Len(retrieved_docs)]

NoValue  == [none |-> TRUE]
NoPrompt == <<>>
NoInput  == DictVal(<<>>)

Returns(value, calls) ==
    [raised |-> FALSE, exc |-> "", value |-> value, calls |-> calls]
Raises(exc, calls) ==
    [raised |-> TRUE, exc |-> exc, value |-> NoValue, calls |-> calls]

\* vectorstore.as_retriever (line 44, before the try): None has no attributes
AsRetrieverRaises(store) == store.isNone

\* a qa_search that invokes the generation service a second time when the
\* first invocation fails
qa_search_Retry(query, store, chat_history, k, env) ==
    IF AsRetrieverRaises(store) THEN Raises("AttributeError", <<>>)
    ELSE IF ~env.search1.ok
    THEN Returns(ErrorResult(env.search1.cause, <<>>), <<"search">>)
    ELSE
      LET retrieved_docs == Search(store, query, k)
          docs_metadata  == ExtractMetadata(retrieved_docs)
      IN  IF ~env.search2.ok
          THEN Returns(ErrorResult(env.search2.cause, docs_metadata),
                       <<"search", "search">>)
          ELSE IF ~env.llm.ok
          THEN Returns(ErrorResult(env.llm.cause, docs_metadata),
                       <<"search", "search", "llm", "llm">>)
          ELSE Returns(SuccessResult(env.llm.text, docs_metadata, retrieved_docs, k),
                       <<"search", "search", "llm">>)

\* qa_search(query, vectorstore, chat_history, k) in the world env: what the
\* caller gets (a returned dict or a raised exception) and the external
\* calls made, in order
qa_search(query, store, chat_history, k, env) ==
    IF AsRetrieverRaises(store) THEN Raises("AttributeError", <<>>)
    ELSE IF ~env.search1.ok
    THEN Returns(ErrorResult(env.search1.cause, <<>>), <<"search">>)
    ELSE
      LET retrieved_docs == Search(store, query, k)
          docs_metadata  == ExtractMetadata(retrieved_docs)
      IN  IF ~env.search2.ok
          THEN Returns(ErrorResult(env.search2.cause, docs_metadata),
                       <<"search", "search">>)
          ELSE IF ~env.llm.ok
          THEN Returns(ErrorResult(env.llm.cause, docs_metadata),
                       <<"search", "search", "llm">>)
          ELSE Returns(SuccessResult(env.llm.text, docs_metadata, retrieved_docs, k),
                       <<"search", "search", "llm">>)

\* the dict that call hands to retrieval_chain.invoke (line 105), NoInput
\* when the call does not get there
ChainInputSent(query, store, chat_history, k, env) ==
    IF AsRetrieverRaises(store) \/ ~env.search1.ok THEN NoInput
    ELSE ChainInput(query, chat_history)

\* a chain whose retriever is given the chat history and not the question
PromptSent_HistorySearch(query, store, chat_history, k, env) ==
    IF AsRetrieverRaises(store) \/ ~env.search1.ok \/ ~env.search2.ok THEN NoPrompt
    ELSE LET x            == ChainInput(query, chat_history)
             context_docs == Search(store, ItemOf(x, KeyChatHistory), k)
         IN  FormatPrompt(Template, ChainValues(x, context_docs))

\* the prompt that call sends to the generation service, NoPrompt when the
\* call does not get there
PromptSent(query, store, chat_history, k, env) ==
    IF AsRetrieverRaises(store) \/ ~env.search1.ok \/ ~env.search2.ok THEN NoPrompt
    ELSE LET x            == ChainInput(query, chat_history)
             context_docs == Search(store, ItemOf(x, KeyQuestion), k)
         IN  FormatPrompt(Template, ChainValues(x, context_docs))

----------------------------------------------------------------------------
(* Direct callers of qa_search: src/evaluation.py and the __main__ of      *)
(* src/utils/qa_chain.py                                                   *)

Digits == <<"0", "1", "2", "3", "4", "5", "6", "7", "8", "9">>

\* a history of n turns, user and assistant alternating, each with its own text
HistOf(n) ==
    [i \in 1..n |-> Turn(IF i % 2 = 1 THEN "user" ELSE "assistant",
                         <<"m", Digits[(i % 10) + 1]>>)]

Histories == {NoneHistory} \cup {ListHistory(HistOf(n)) : n \in 0..MaxHist}

NoEnv  == [search1 |-> Ok(<<>>), search2 |-> Ok(<<>>), llm |-> Ok(<<>>)]
NoCall == [query |-> <<>>, vectorstore |-> NoneStore, chat_history |-> NoneHistory,
           k |-> 0, env |-> NoEnv]
NoRet  == Raises("", <<>>)
NoSent == [input |-> NoInput, prompt |-> NoPrompt]

AppIdle ==
    /\ messages = <<>>
    /\ last_query = <<>>
    /\ should_process_query = FALSE
    /\ vectorstore = NoneStore
    /\ run = [event |-> "none"]
    /\ failures = 0

\* the offline jobs have not run
OfflineIdle ==
    /\ csv = <<>>
    /\ summary = [status |-> "none"]
    /\ disk = NoneStore
    /\ indexing = [pc |-> "none"]

InitQA ==
    /\ heap = InitHeap
    /\ call = NoCall
    /\ ret = NoRet
    /\ sent = NoSent
    /\ pc = "idle"
    /\ AppIdle
    /\ OfflineIdle

\* result = qa_search(query, vectorstore, chat_history, k)
Call ==
    /\ pc = "idle"
    /\ \E query \in Queries, store \in Stores, chat_history \in Histories,
          k \in 1..MaxK, env \in Envs :
          /\ call' = [query |-> query, vectorstore |-> store,
                      chat_history |-> chat_history, k |-> k, env |-> env]
          /\ ret' = qa_search(query, store, chat_history, k, env)
          /\ sent' = [input  |-> ChainInputSent(query, store, chat_history, k, env),
                      prompt |-> PromptSent(query, store, chat_history, k, env)]
    /\ pc' = "returned"
    /\ UNCHANGED <<heap, appVars, offVars>>

\* the caller does result["document_metadata"][i][key] = 0
MutateEntry ==
    /\ pc = "returned"
    /\ ~ret.raised
    /\ \E i \in DOMAIN ret.value.document_metadata :
         \E key \in DOMAIN ret.value.document_metadata[i] :
            ret' = [ret EXCEPT !.value.document_metadata[i][key] = NumV(0)]
    /\ pc' = "mutated"
    /\ UNCHANGED <<heap, call, sent, appVars, offVars>>

\* the caller does result["document_metadata"][i]["raw_data"]["total_records"] = 0
MutateRawData ==
    /\ pc = "returned"
    /\ ~ret.raised
    /\ \E i \in DOMAIN ret.value.document_metadata :
         LET entry == ret.value.document_metadata[i]
         IN  /\ "raw_data" \in DOMAIN entry
             /\ entry["raw_data"].tag = "ref"
             /\ heap' = [heap EXCEPT ![entry["raw_data"].id]["total_records"] = NumV(0)]
    /\ pc' = "mutated"
    /\ UNCHANGED <<call, ret, sent, appVars, offVars>>

\* the caller is done with the result
Discard ==
    /\ pc \in {"returned", "mutated"}
    /\ pc' = "idle"
    /\ call' = NoCall
    /\ ret' = NoRet
    /\ sent' = NoSent
    /\ UNCHANGED <<heap, appVars, offVars>>

NextQA == Call \/ MutateEntry \/ MutateRawData \/ Discard

SpecQA == InitQA /\ [][NextQA]_vars

----------------------------------------------------------------------------
(* The Streamlit session of src/app.py: every user interaction runs the    *)
(* script once, top to bottom                                              *)

\* max_messages of format_chat_history
DefaultMaxMessages == 10
\* the number of messages the session keeps after an answer
KeepMessages == 10
\* the k the app asks for
AppK == 6

\* messages[-n:]
LastN(s, n) == SubSeq(s, Len(s) - n + 1, Len(s))
\* messages[:-1]
AllButLast(s) == SubSeq(s, 1, Len(s) - 1)

\* format_chat_history that keeps the first max_messages messages
format_chat_history_First(msgs, max_messages) ==
    LET recent_messages == IF Len(msgs) > max_messages
                           THEN SubSeq(msgs, 1, max_messages) ELSE msgs
    IN  [i \in DOMAIN recent_messages |->
            Turn(IF recent_messages[i].role = "user" THEN "user" ELSE "assistant",
                 recent_messages[i].content)]

format_chat_history(msgs, max_messages) ==
    LET recent_messages == IF Len(msgs) > max_messages
                           THEN LastN(msgs, max_messages) ELSE msgs
    IN  [i \in DOMAIN recent_messages |->
            Turn(IF recent_messages[i].role = "user" THEN "user" ELSE "assistant",
                 recent_messages[i].content)]

\* what get_cached_vectorstore gives the session: no index, or the index
\* persisted by the indexing job
LoadedStores == {NoneStore, StoreOf(MaxDocs)}

UserMessage(query) == [role |-> "user", content |-> query]
AssistantMessage(result) ==
    [role |-> "assistant", content |-> result.answer,
     metadata |-> result.document_metadata]

\* a trim that keeps the oldest messages
Trim_Oldest(msgs) ==
    IF Len(msgs) > KeepMessages THEN SubSeq(msgs, 1, KeepMessages) ELSE msgs

\* lines 195-198
Trim(msgs) == IF Len(msgs) > KeepMessages THEN LastN(msgs, KeepMessages) ELSE msgs

NoRun(event) ==
    [event |-> event, processed |-> FALSE,
     query |-> <<>>, out |-> NoRet, engine_calls |-> 0, k |-> 0,
     block |-> <<>>, turns |-> 0, shown |-> "none"]

\* a processing block that trims the conversation on the failure paths too
ProcessQuery_TrimAlways(event, msgs, query, store, env) ==
    LET with_user    == Append(msgs, UserMessage(query))
        chat_history == format_chat_history(AllButLast(with_user), DefaultMaxMessages)
        out          == qa_search(query, store, ListHistory(chat_history), AppK, env)
        x            == ChainInputSent(query, store, ListHistory(chat_history), AppK, env)
        record(o, n, shown) ==
            [event |-> event, processed |-> TRUE,
             query |-> query, out |-> o, engine_calls |-> n,
             k |-> IF n > 0 THEN AppK ELSE 0,
             block |-> IF x = NoInput THEN <<>> ELSE ItemOf(x, KeyChatHistory),
             turns |-> IF x = NoInput THEN 0 ELSE Len(chat_history),
             shown |-> shown]
    IN  IF store.isNone
        THEN \* line 209: "Knowledge base not initialized"
             [messages |-> Trim(with_user), run |-> record(NoRet, 0, "error")]
        ELSE IF out.raised \/ "retrieved_count" \notin DOMAIN out.value
        THEN \* qa_search raised, or line 177 raised KeyError: line 204
             [messages |-> Trim(with_user), run |-> record(out, 1, "error")]
        ELSE [messages |-> Trim(Append(with_user, AssistantMessage(out.value))),
              run      |-> record(out, 1, "success")]

\* a processing block whose except clause does not catch the KeyError of
\* line 177
ProcessQuery_KeyErrorEscapes(event, msgs, query, store, env) ==
    LET with_user    == Append(msgs, UserMessage(query))
        chat_history == format_chat_history(AllButLast(with_user), DefaultMaxMessages)
        out          == qa_search(query, store, ListHistory(chat_history), AppK, env)
        x            == ChainInputSent(query, store, ListHistory(chat_history), AppK, env)
        record(o, n, shown) ==
            [event |-> event, processed |-> TRUE,
             query |-> query, out |-> o, engine_calls |-> n,
             k |-> IF n > 0 THEN AppK ELSE 0,
             block |-> IF x = NoInput THEN <<>> ELSE ItemOf(x, KeyChatHistory),
             turns |-> IF x = NoInput THEN 0 ELSE Len(chat_history),
             shown |-> shown]
    IN  IF store.isNone
        THEN \* line 209: "Knowledge base not initialized"
             [messages |-> with_user, run |-> record(NoRet, 0, "error")]
        ELSE IF out.raised \/ "retrieved_count" \notin DOMAIN out.value
        THEN \* qa_search raised: line 204; line 177 raised KeyError: not caught
             [messages |-> with_user,
              run      |-> record(out, 1, IF out.raised THEN "error" ELSE "uncaught")]
        ELSE [messages |-> Trim(Append(with_user, AssistantMessage(out.value))),
              run      |-> record(out, 1, "success")]

\* the query processing block (lines 151-211) for the pending query, in the
\* world env: the new messages and the record of the run (out: what
\* qa_search gave; k: the k it was called with; block: the history block it
\* rendered for the chain, of turns turns)
ProcessQuery(event, msgs, query, store, env) ==
    LET with_user    == Append(msgs, UserMessage(query))
        chat_history == format_chat_history(AllButLast(with_user), DefaultMaxMessages)
        out          == qa_search(query, store, ListHistory(chat_history), AppK, env)
        x            == ChainInputSent(query, store, ListHistory(chat_history), AppK, env)
        record(o, n, shown) ==
            [event |-> event, processed |-> TRUE,
             query |-> query, out |-> o, engine_calls |-> n,
             k |-> IF n > 0 THEN AppK ELSE 0,
             block |-> IF x = NoInput THEN <<>> ELSE ItemOf(x, KeyChatHistory),
             turns |-> IF x = NoInput THEN 0 ELSE Len(chat_history),
             shown |-> shown]
    IN  IF store.isNone
        THEN \* line 209: "Knowledge base not initialized"
             [messages |-> with_user, run |-> record(NoRet, 0, "error")]
        ELSE IF out.raised \/ "retrieved_count" \notin DOMAIN out.value
        THEN \* qa_search raised, or line 177 raised KeyError: line 204
             [messages |-> with_user, run |-> record(out, 1, "error")]
        ELSE [messages |-> Trim(Append(with_user, AssistantMessage(out.value))),
              run      |-> record(out, 1, "success")]

\* a clear_chat that leaves the pending query in place
clear_chat_KeepQuery ==
    [messages |-> <<>>, last_query |-> last_query, should_process_query |-> FALSE]

\* clear_chat (called by clear_chat_with_logging): the session fields it assigns
clear_chat ==
    [messages |-> <<>>, last_query |-> <<>>, should_process_query |-> FALSE]

\* a script body that resets the flag after the answer was appended, inside
\* the try, and not before the engine call
ScriptBody_ResetAfterAnswer(event, msgs, query, flag) ==
    IF flag /\ query # <<>>
    THEN \E env \in Envs :
         \E p \in {ProcessQuery(event, msgs, query, vectorstore, env)} :
            /\ (p.run.shown = "error" => failures < MaxFailures)
            /\ messages' = p.messages
            /\ run' = p.run
            /\ failures' = IF p.run.shown = "error" THEN failures + 1 ELSE failures
            /\ last_query' = query
            /\ should_process_query' = (p.run.shown # "success")
    ELSE /\ messages' = msgs
         /\ run' = NoRun(event)
         /\ failures' = failures
         /\ last_query' = query
         /\ should_process_query' = flag

\* the script from line 151 on, the widgets and callbacks having left the
\* session state (msgs, query, flag)
ScriptBody(event, msgs, query, flag) ==
    IF flag /\ query # <<>>
    THEN \E env \in Envs :
         \E p \in {ProcessQuery(event, msgs, query, vectorstore, env)} :
            /\ (p.run.shown = "error" => failures < MaxFailures)
            /\ messages' = p.messages
            /\ run' = p.run
            /\ failures' = IF p.run.shown = "error" THEN failures + 1 ELSE failures
            /\ last_query' = query
            /\ should_process_query' = FALSE
    ELSE /\ messages' = msgs
         /\ run' = NoRun(event)
         /\ failures' = failures
         /\ last_query' = query
         /\ should_process_query' = flag

Init ==
    /\ heap = InitHeap
    /\ call = NoCall
    /\ ret = NoRet
    /\ sent = NoSent
    /\ pc = "idle"
    /\ messages = <<>>
    /\ last_query = <<>>
    /\ should_process_query = FALSE
    /\ vectorstore \in LoadedStores
    /\ run = NoRun("start")
    /\ failures = 0
    /\ OfflineIdle

\* a sample-question button: set_query(question), then the script body
SampleQuestion ==
    /\ \E question \in Queries : ScriptBody("set_query", messages, question, TRUE)
    /\ UNCHANGED <<heap, qaVars, vectorstore, offVars>>

\* a Run button that calls set_query whatever the text input holds
RunButton_NoTextCheck ==
    /\ \E text \in Queries \cup {<<>>} :
          ScriptBody(IF text # <<>> THEN "set_query" ELSE "run_empty",
                     messages, text, TRUE)
    /\ UNCHANGED <<heap, qaVars, vectorstore, offVars>>

\* the Run button with the text input holding text: set_query(text) when the
\* text is not empty, then the script body
RunButton ==
    /\ \E text \in Queries \cup {<<>>} :
          IF text # <<>>
          THEN ScriptBody("set_query", messages, text, TRUE)
          ELSE ScriptBody("run_empty", messages, last_query, should_process_query)
    /\ UNCHANGED <<heap, qaVars, vectorstore, offVars>>

\* the Clear button: clear_chat runs as the on_click callback, then the
\* script body
ClearButton ==
    /\ ScriptBody("clear", clear_chat.messages, clear_chat.last_query,
                  clear_chat.should_process_query)
    /\ UNCHANGED <<heap, qaVars, vectorstore, offVars>>

\* any other interaction reruns the script with no button pressed
Rerun ==
    /\ ScriptBody("rerun", messages, last_query, should_process_query)
    /\ UNCHANGED <<heap, qaVars, vectorstore, offVars>>

Next == SampleQuestion \/ RunButton \/ ClearButton \/ Rerun

Spec == Init /\ [][Next]_vars

----------------------------------------------------------------------------
(* Claims about qa_search, checked under SpecQA *)

Returned == pc = "returned"
Succeeded == Returned /\ ~ret.raised /\ "retrieved_count" \in DOMAIN ret.value

\* a failure of the similarity search or of the generation call inside the call
FailureInside ==
    /\ ~call.vectorstore.isNone
    /\ (~call.env.search1.ok \/ ~call.env.search2.ok \/ ~call.env.llm.ok)

\* the text of the exception that ended the try block
Cause ==
    IF ~call.env.search1.ok THEN call.env.search1.cause
    ELSE IF ~call.env.search2.ok THEN call.env.search2.cause
    ELSE call.env.llm.cause

CountUnsetOrZero(value) ==
    "retrieved_count" \notin DOMAIN value \/ value.retrieved_count = 0

\* C1: every qa_search call returns a mapping with an 'answer' and a
\* 'document_metadata' field and never raises to its caller.
C1_NeverRaises ==
    Returned =>
        /\ ~ret.raised
        /\ {"answer", "document_metadata"} \subseteq DOMAIN ret.value

\* C2: with an absent index the result has document_metadata == [], no or
\* zero retrieved_count and a non-empty error, and neither a similarity
\* search nor a generation call is attempted.
C2_AbsentIndexResult ==
    (Returned /\ call.vectorstore.isNone) =>
        /\ ~ret.raised
        /\ ret.value.document_metadata = <<>>
        /\ CountUnsetOrZero(ret.value)
        /\ "error" \in DOMAIN ret.value
        /\ ret.value.error # <<>>
        /\ ret.calls = <<>>

\* C3: when the similarity search or the generation call fails inside
\* qa_search, the answer contains "Error" and the text of the cause,
\* document_metadata is empty, retrieved_count is omitted or zero and error
\* holds the raw cause.
C3_FailureResult ==
    (Returned /\ FailureInside) =>
        /\ ~ret.raised
        /\ Contains(ret.value.answer, <<"E", "r", "r", "o", "r">>)
        /\ Contains(ret.value.answer, Cause)
        /\ ret.value.document_metadata = <<>>
        /\ CountUnsetOrZero(ret.value)
        /\ "error" \in DOMAIN ret.value
        /\ ret.value.error = Cause

\* the generation call fails after documents were retrieved
C3_Witness ==
    /\ Returned /\ FailureInside
    /\ call.env.search1.ok /\ call.env.search2.ok /\ ~call.env.llm.ok
    /\ Len(call.vectorstore.docs) >= 2
    /\ ret.calls = <<"search", "search", "llm">>

EmptyHistories == {NoneHistory, ListHistory(<<>>)}

\* C6: an empty history renders to the empty string, and the result of
\* qa_search is the same whether the history is omitted (None) or passed as
\* an empty list.
C6_EmptyHistory ==
    (Returned /\ call.chat_history \in EmptyHistories) =>
        /\ chat_history_to_str(call.chat_history) = <<>>
        /\ \A other \in EmptyHistories :
              /\ qa_search(call.query, call.vectorstore, other, call.k, call.env) = ret
              /\ PromptSent(call.query, call.vectorstore, other, call.k, call.env)
                    = sent.prompt

\* a successful call made without a history
C6_Witness ==
    /\ Succeeded
    /\ call.chat_history = NoneHistory
    /\ sent.prompt # NoPrompt

\* C7: on every successful call retrieved_count is k when the index holds at
\* least k documents and the index size otherwise.
C7_RetrievedCount ==
    Succeeded =>
        ret.value.retrieved_count =
            (IF Len(call.vectorstore.docs) >= call.k
             THEN call.k ELSE Len(call.vectorstore.docs))

\* a successful call that asks for more documents than the index holds
C7_Witness ==
    /\ Succeeded
    /\ call.k > Len(call.vectorstore.docs)
    /\ Len(call.vectorstore.docs) >= 1
    /\ ret.value.retrieved_count = Len(call.vectorstore.docs)

\* C8: no mutation of a returned document_metadata entry, also inside its
\* nested raw_data mapping, changes the metadata stored in the index.
C8_StoredMetadataUnchanged ==
    \A id \in DOMAIN heap : heap[id] = InitHeap[id]

\* the metadata the index stores for a document, as it is now
StoredMetadata(doc) == heap[doc.metadata]

ScoreKey(doc) == IF doc.hasScore THEN {"similarity_score"} ELSE {}

\* C9: on success document_metadata has one entry per retrieved document in
\* retrieval order, equal key for key to the stored metadata, with a
\* similarity_score key exactly when the store attached a score.
C9_MetadataVerbatim ==
    Succeeded =>
        LET docs == Search(call.vectorstore, call.query, call.k)
            meta == ret.value.document_metadata
        IN  /\ Len(meta) = Len(docs)
            /\ \A i \in DOMAIN docs :
                 /\ DOMAIN meta[i] = DOMAIN StoredMetadata(docs[i]) \cup ScoreKey(docs[i])
                 /\ \A key \in DOMAIN StoredMetadata(docs[i]) \ ScoreKey(docs[i]) :
                       meta[i][key] = StoredMetadata(docs[i])[key]
                 /\ docs[i].hasScore =>
                       meta[i]["similarity_score"] = NumV(docs[i].similarity_score)

\* a successful call that retrieved a scored document, an unscored one and
\* one without metadata
C9_Witness ==
    /\ Succeeded
    /\ Len(ret.value.document_metadata) >= 3
    /\ \E i, j, n \in DOMAIN ret.value.document_metadata :
          /\ "similarity_score" \in DOMAIN ret.value.document_metadata[i]
          /\ DOMAIN ret.value.document_metadata[j] = {"type", "raw_data", "plot_path"}
          /\ DOMAIN ret.value.document_metadata[n] = {}

SectionText(prompt, name) ==
    LET i == CHOOSE j \in DOMAIN prompt : prompt[j].kind = "var" /\ prompt[j].name = name
    IN  prompt[i].text

SectionOrder(prompt) ==
    [i \in DOMAIN prompt |-> IF prompt[i].kind = "var" THEN prompt[i].name ELSE "text"]

\* C10: in the prompt sent to the generation service the chat-history
\* section is exactly the rendered history block, the context section is the
\* text of the retrieved documents in retrieval order, the question section
\* is exactly the query, in the order history, context, question, instruction.
C10_PromptSections ==
    (Returned /\ sent.prompt # NoPrompt) =>
        /\ SectionText(sent.prompt, "chat_history") = chat_history_to_str(call.chat_history)
        /\ SectionText(sent.prompt, "context") =
              StuffDocuments(Search(call.vectorstore, call.query, call.k))
        /\ SectionText(sent.prompt, "question") = call.query
        /\ SectionOrder(sent.prompt) =
              <<"text", "text", "chat_history", "text", "context",
                "text", "question", "text">>

----------------------------------------------------------------------------
(* Claims about the session, checked under Spec *)

\* C4: once the handling of a query has finished, the conversation state
\* holds at most 10 turns.
C4_AtMostTenTurns == Len(messages) <= 10

\* one turn as the history block shows it
TurnLine(turn) ==
    (IF turn.role = "user"
     THEN <<"U", "s", "e", "r", ":", " ">>
     ELSE <<"A", "s", "s", "i", "s", "t", "a", "n", "t", ":", " ">>)
    \o turn.content \o <<"\n", "\n">>

RECURSIVE LinesOf(_, _, _)
\* the lines of turns lo..hi, in that order
LinesOf(turns, lo, hi) ==
    IF lo > hi THEN <<>> ELSE TurnLine(turns[lo]) \o LinesOf(turns, lo + 1, hi)

\* the last min(n, 10) of the n prior turns, oldest first
ExpectedBlock(prior) ==
    LinesOf(prior, Len(prior) - Min(Len(prior), 10) + 1, Len(prior))

\* C5: the history block handed to the chain holds exactly the last
\* min(n, 10) turns that precede the current question, in chronological
\* order, each as "User: <content>" or "Assistant: <content>", and never the
\* current question itself.
C5_HistoryBlock ==
    [][ (run'.processed /\ Len(run'.out.calls) >= 2) =>
            /\ run'.block = ExpectedBlock(messages)
            /\ run'.turns = Min(Len(messages), 10) ]_vars

\* a query whose chain ran with more than 10 prior turns in the session
C5_Witness ==
    /\ run.processed
    /\ Len(run.out.calls) >= 2
    /\ run.shown = "error"
    /\ run.turns = 10
    /\ Len(messages) >= 12

----------------------------------------------------------------------------
(* Claims about qa_search, continued (checked under SpecQA) *)

\* how many times a call invoked the generation service
Generations(calls) == Cardinality({i \in DOMAIN calls : calls[i] = "llm"})

\* both similarity searches of a call (line 90 and the retriever of the
\* chain, line 79) were made and succeeded
RetrievalSucceeded ==
    /\ ~AsRetrieverRaises(call.vectorstore)
    /\ call.env.search1.ok
    /\ call.env.search2.ok

\* a similarity search of the call was made and failed
SearchFailed ==
    /\ ~AsRetrieverRaises(call.vectorstore)
    /\ (~call.env.search1.ok \/ ~call.env.search2.ok)

\* C11: a qa_search call invokes the generation service at most once and
\* never a second time: exactly once when retrieval succeeded (whether the
\* generation then succeeds or fails), and not at all when a similarity
\* search failed.
C11_GenerationAtMostOnce ==
    pc # "idle" =>
        /\ Generations(ret.calls) <= 1
        /\ RetrievalSucceeded => Generations(ret.calls) = 1
        /\ SearchFailed => Generations(ret.calls) = 0

\* a call whose only generation failed, and which gave the failure back
C11_Witness ==
    /\ pc = "returned"
    /\ RetrievalSucceeded
    /\ ~call.env.llm.ok
    /\ Generations(ret.calls) = 1
    /\ "error" \in DOMAIN ret.value

----------------------------------------------------------------------------
(* Claims about the session, continued (checked under Spec) *)

\* C12: for every query the app processes, the session has received one
\* user turn holding the query, followed by one assistant turn whose content
\* is the answer of the result and whose metadata is its document_metadata.
C12_TurnPairAppended ==
    run.processed =>
        LET n == Len(messages)
        IN  /\ n >= 2
            /\ messages[n - 1] = UserMessage(run.query)
            /\ messages[n].role = "assistant"
            /\ ~run.out.raised
            /\ messages[n].content = run.out.value.answer
            /\ messages[n].metadata = run.out.value.document_metadata

\* C13: a script run started by the Clear button ends with no messages, the
\* pending query "", the process-query flag false and the loaded vector
\* index as it was, and processes nothing; the run that follows a clear
\* without a new set_query processes nothing either.
C13_ClearResets ==
    [][/\ run'.event = "clear" =>
            /\ messages' = <<>>
            /\ last_query' = <<>>
            /\ should_process_query' = FALSE
            /\ vectorstore' = vectorstore
            /\ ~run'.processed
            /\ run'.engine_calls = 0
       /\ (run.event = "clear" /\ run'.event \in {"rerun", "run_empty"}) =>
            /\ ~run'.processed
            /\ messages' = <<>>]_vars

\* a clear of a session on a loaded index in which queries had been asked
C13_Witness ==
    /\ run.event = "clear"
    /\ messages = <<>>
    /\ last_query = <<>>
    /\ failures >= 1
    /\ ~vectorstore.isNone

\* the processed query met a serving-path failure: no index, qa_search
\* raised, or qa_search returned an error result
ServingFailure ==
    /\ run.processed
    /\ \/ vectorstore.isNone
       \/ run.out.raised
       \/ "error" \in DOMAIN run.out.value

\* C14: every processed query ends with st.success or st.error and never
\* with an uncaught exception; whenever the index is absent, qa_search
\* raised or qa_search returned an error result, the run ends with st.error,
\* and the session is left ready for the next query (flag down, a sample
\* question can still be asked and processed).
C14_FailureNotFatal ==
    /\ run.processed => run.shown \in {"success", "error"}
    /\ ServingFailure =>
          /\ run.shown = "error"
          /\ ~should_process_query
          /\ failures < MaxFailures => ENABLED SampleQuestion

\* a later query of a conversation for which qa_search returned an error result
C14_Witness ==
    /\ ServingFailure
    /\ ~run.out.raised
    /\ run.shown = "error"
    /\ Len(messages) >= 3

\* C17: the stored conversation consists of whole question/answer pairs: its
\* length is even, its first turn is a user turn, and user and assistant
\* turns alternate strictly.
C17_WholePairs ==
    /\ Len(messages) % 2 = 0
    /\ \A i \in DOMAIN messages :
          messages[i].role = IF i % 2 = 1 THEN "user" ELSE "assistant"

\* C18: when a successful query leaves more than 10 turns (the turns before
\* it, its user turn and its assistant turn), the session keeps exactly the
\* 10 most recent of them in their order, dropping only the oldest; the last
\* two kept turns are the user turn and the assistant turn of that query.
C18_TrimKeepsRecent ==
    [][(run'.processed /\ run'.shown = "success" /\ Len(messages) + 2 > 10) =>
          LET answered == [role     |-> "assistant",
                           content  |-> run'.out.value.answer,
                           metadata |-> run'.out.value.document_metadata]
              full     == messages \o <<UserMessage(run'.query), answered>>
              dropped  == Len(full) - 10
          IN  /\ Len(messages') = 10
              /\ \A i \in 1..10 : messages'[i] = full[dropped + i]
              /\ messages'[9] = UserMessage(run'.query)
              /\ messages'[10] = answered]_vars

\* an answered query after which 10 turns are kept, the oldest of them an
\* assistant turn: its user turn was dropped by a trim
C18_Witness ==
    /\ run.processed
    /\ run.shown = "success"
    /\ Len(messages) = 10
    /\ messages[1].role = "assistant"

\* C19: a script run calls qa_search at most once, and only a run started
\* by a set_query does; the flag is down after every run, failed ones
\* included, so a rerun with no new set_query never calls qa_search.
C19_OneCallPerSetQuery ==
    /\ run.engine_calls <= 1
    /\ run.engine_calls = 1 => run.event = "set_query"
    /\ run.event \in {"rerun", "run_empty", "clear"} => ~run.processed
    /\ ~should_process_query

\* a rerun of a session whose last query, made on a loaded index, failed
\* and is still the pending query: it was not sent to qa_search again
C19_Witness ==
    /\ run.event = "rerun"
    /\ run.engine_calls = 0
    /\ last_query # <<>>
    /\ ~vectorstore.isNone
    /\ messages # <<>>
    /\ messages[Len(messages)] = UserMessage(last_query)

\* C20: a script run that calls qa_search passes it a non-empty query and a
\* k of at least 1; pressing Run with an empty text input leaves messages,
\* the pending query, the flag and the vector index as they were and
\* processes nothing; no run processes an empty pending query.
C20_NoEmptyQuery ==
    [][/\ run'.engine_calls >= 1 => (run'.query # <<>> /\ run'.k >= 1)
       /\ run'.processed => (run'.query # <<>> /\ last_query' = run'.query)
       /\ run'.event = "run_empty" =>
            /\ messages' = messages
            /\ last_query' = last_query
            /\ should_process_query' = should_process_query
            /\ vectorstore' = vectorstore
            /\ ~run'.processed
       /\ last_query' = <<>> => ~run'.processed]_vars

\* Run pressed with an empty text input in a session that holds a
\* conversation and a pending query
C20_Witness ==
    /\ run.event = "run_empty"
    /\ ~run.processed
    /\ messages # <<>>
    /\ last_query # <<>>

----------------------------------------------------------------------------
(* The aggregation job of src/create_statistical_summary.py, as far as the *)
(* Customer_Age column decides it: load_data, the demographic loop, the    *)
(* overall document and the write of documents.json. The loops over        *)
(* quarters, products and regions do not read the age and are left out.    *)

\* rows of the largest CSV
MaxRecords == 2

\* the ages a row can hold: both sides of every bin edge
AgeValues == {17, 18, 25, 26, 35, 36, 50, 51, 70, 71}

Csvs == UNION {[1..n -> AgeValues] : n \in 0..MaxRecords}

\* the missing value of pandas; str(nan) is "nan"
NaN == "nan"

AgeBins   == <<17, 25, 35, 50, 70>>
AgeLabels == <<"18-25", "26-35", "36-50", "51-70">>

\* pd.cut(x, bins, labels) with its default right=True: the label of the
\* interval (bins[i], bins[i+1]] that holds x, NaN when none does
cut(x, bins, labels) ==
    LET hit == {i \in DOMAIN labels : bins[i] < x /\ x <= bins[i + 1]}
    IN  IF hit = {} THEN NaN ELSE labels[CHOOSE i \in hit : TRUE]

\* load_data: the frame with its Age_Group column
load_data(rows) ==
    [i \in DOMAIN rows |->
        [Customer_Age |-> rows[i], Age_Group |-> cut(rows[i], AgeBins, AgeLabels)]]

RECURSIVE UniqueFrom(_, _, _)
UniqueFrom(column, i, seen) ==
    IF i > Len(column) THEN seen
    ELSE UniqueFrom(column, i + 1,
                    IF \E j \in DOMAIN seen : seen[j] = column[i]
                    THEN seen ELSE Append(seen, column[i]))

\* Series.unique(): the distinct values in order of appearance, the missing
\* value among them
unique(column) == UniqueFrom(column, 1, <<>>)

\* sales_df[sales_df["Age_Group"] == age_group]: NaN equals nothing
RowsOfGroup(df, age_group) ==
    LET same(row) == age_group # NaN /\ row.Age_Group = age_group
    IN  SelectSeq(df, same)

\* create_summary_dict: chunk["Date"].min() of an empty chunk is NaT, and
\* NaT.strftime raises ValueError
create_summary_dict(chunk, level_name, level_value) ==
    IF Len(chunk) = 0
    THEN [raised |-> TRUE, exc |-> "ValueError"]
    ELSE [raised |-> FALSE,
          value  |-> [level |-> level_name, value |-> level_value,
                      total_records |-> Len(chunk)]]

\* the document appended for an age group (lines 214-223)
AgeGroupDocument(age_group, raw_data) ==
    [id |-> <<"age_group", age_group>>, type |-> "demographic",
     age_group |-> age_group, raw_data |-> raw_data]

\* the overall document (lines 250-258)
OverallDocument(raw_data) ==
    [id |-> <<"overall_summary">>, type |-> "overall",
     age_group |-> "", raw_data |-> raw_data]

\* the demographic loop (lines 187-223) from the i-th unique age group on
RECURSIVE DemographicFrom(_, _, _, _)
DemographicFrom(df, groups, i, documents) ==
    IF i > Len(groups) THEN [raised |-> FALSE, documents |-> documents]
    ELSE LET chunk == RowsOfGroup(df, groups[i])
             made  == create_summary_dict(chunk, "age_group", groups[i])
         IN  IF made.raised
             THEN [raised |-> TRUE, exc |-> made.exc, documents |-> documents]
             ELSE DemographicFrom(df, groups, i + 1,
                      Append(documents, AgeGroupDocument(groups[i], made.value)))

JobFailed(exc)      == [status |-> "failed", exc |-> exc, documents |-> <<>>]
JobDone(documents)  == [status |-> "done", exc |-> "", documents |-> documents]

\* the job on the rows of the CSV: it ends with documents.json written, or
\* with the exception that stopped it
create_statistical_summary(rows) ==
    LET sales_df == load_data(rows)
        groups   == unique([i \in DOMAIN sales_df |-> sales_df[i].Age_Group])
        demo     == DemographicFrom(sales_df, groups, 1, <<>>)
        overall  == create_summary_dict(sales_df, "overall", "all_data")
    IN  IF demo.raised THEN JobFailed(demo.exc)
        ELSE IF overall.raised THEN JobFailed(overall.exc)
        ELSE JobDone(Append(demo.documents, OverallDocument(overall.value)))

AppOff ==
    /\ heap = InitHeap
    /\ call = NoCall
    /\ ret = NoRet
    /\ sent = NoSent
    /\ pc = "idle"
    /\ AppIdle

InitSummary ==
    /\ AppOff
    /\ csv \in Csvs
    /\ summary = [status |-> "ready"]
    /\ disk = NoneStore
    /\ indexing = [pc |-> "none"]

\* python create_statistical_summary.py
RunSummaryJob ==
    /\ summary.status = "ready"
    /\ summary' = create_statistical_summary(csv)
    /\ UNCHANGED <<heap, qaVars, appVars, csv, disk, indexing>>

NextSummary == RunSummaryJob

SpecSummary == InitSummary /\ [][NextSummary]_vars

----------------------------------------------------------------------------
(* Claims about the aggregation job, checked under SpecSummary *)

\* the age groups as the claim states them, both ends inclusive
AgeRanges ==
    <<[label |-> "18-25", lo |-> 18, hi |-> 25],
      [label |-> "26-35", lo |-> 26, hi |-> 35],
      [label |-> "36-50", lo |-> 36, hi |-> 50],
      [label |-> "51-70", lo |-> 51, hi |-> 70]>>

\* the rows of the CSV whose age lies in a range
RowsIn(range) ==
    {i \in DOMAIN csv : range.lo <= csv[i] /\ csv[i] <= range.hi}

DemographicDocuments ==
    {i \in DOMAIN summary.documents : summary.documents[i].type = "demographic"}

\* C16: every integer age from 18 to 70 is put in exactly one of the groups
\* 18-25, 26-35, 36-50 and 51-70, both ends inclusive; and for every
\* non-empty CSV the job ends with its documents written, among them one
\* age-group document for each group that has rows, counting exactly the
\* rows of that group, no other age-group document, and the overall
\* document counting every row, rows with an age outside 18..70 included.
C16_AgeGroups ==
    /\ \A age \in 18..70 :
          /\ Cardinality({r \in DOMAIN AgeRanges :
                             AgeRanges[r].lo <= age /\ age <= AgeRanges[r].hi}) = 1
          /\ \A r \in DOMAIN AgeRanges :
                (AgeRanges[r].lo <= age /\ age <= AgeRanges[r].hi)
                    => cut(age, AgeBins, AgeLabels) = AgeRanges[r].label
    /\ (summary.status \in {"done", "failed"} /\ csv # <<>>) =>
          /\ summary.status = "done"
          /\ \A r \in DOMAIN AgeRanges :
                Cardinality({i \in DemographicDocuments :
                                summary.documents[i].age_group = AgeRanges[r].label})
                    = IF RowsIn(AgeRanges[r]) = {} THEN 0 ELSE 1
          /\ \A i \in DemographicDocuments :
                \E r \in DOMAIN AgeRanges :
                    /\ summary.documents[i].age_group = AgeRanges[r].label
                    /\ summary.documents[i].raw_data.total_records
                           = Cardinality(RowsIn(AgeRanges[r]))
          /\ \E i \in DOMAIN summary.documents :
                /\ summary.documents[i].type = "overall"
                /\ summary.documents[i].raw_data.total_records = Len(csv)

----------------------------------------------------------------------------
(* The indexing job of src/index_documents.py, with index_documents of     *)
(* src/utils/document_processor.py. The vector store functions             *)
(* (get_vectorstore, init_vectorstore, add_documents, save_vectorstore)    *)
(* follow section 4.2 of the specification.                                *)

\* records of the largest document file
MaxFileRecords == 2
\* the job is not started again once the persisted index holds this many
\* documents
MaxIndexSize == 3

\* record i of documents.json, as the aggregation job writes it
FileRecord(i) ==
    [id |-> i, text |-> <<DocText[((i - 1) % 3) + 1]>>, metadata |-> MetaId(i)]
\* a record with no "text" key
BadRecord == [id |-> 0, metadata |-> 0]

FileRecords == {FileRecord(i) : i \in 1..MaxFileRecords} \cup {BadRecord}

\* what --data-path can name: no file, a file that is not JSON, a JSON list
MissingFile    == [kind |-> "missing", data |-> <<>>]
InvalidFile    == [kind |-> "invalid", data |-> <<>>]
JsonFile(data) == [kind |-> "json", data |-> data]
DataFiles ==
    {MissingFile, InvalidFile}
    \cup {JsonFile(data) : data \in UNION {[1..n -> FileRecords] : n \in 0..MaxFileRecords}}

\* a call the job made, and whether it returned (ok) or raised
Made(fn, ok) == [fn |-> fn, ok |-> ok]

\* get_vectorstore(): the persisted index, None when there is none
get_vectorstore(persisted) == persisted

\* init_vectorstore(documents): a new index of the documents; it fails when
\* there are none or when the embedding fails
init_vectorstore(documents, embed_ok) ==
    IF documents = <<>> \/ ~embed_ok
    THEN [raised |-> TRUE, exc |-> "IndexBuildError", vectorstore |-> NoneStore]
    ELSE [raised |-> FALSE, exc |-> "",
          vectorstore |-> [isNone |-> FALSE, docs |-> documents]]

\* vectorstore.add_documents(documents): the documents appended in place; it
\* fails under the same conditions
add_documents(store, documents, embed_ok) ==
    IF documents = <<>> \/ ~embed_ok
    THEN [raised |-> TRUE, exc |-> "IndexBuildError", vectorstore |-> store]
    ELSE [raised |-> FALSE, exc |-> "",
          vectorstore |-> [isNone |-> FALSE, docs |-> store.docs \o documents]]

\* an index_documents that catches the failure of the store and returns the
\* index it has
index_documents_Swallow(documents, persisted, embed_ok) ==
    LET loaded == get_vectorstore(persisted)
        made == IF ~loaded.isNone
                THEN add_documents(loaded, documents, embed_ok)
                ELSE init_vectorstore(documents, embed_ok)
        fn   == IF ~loaded.isNone THEN "add_documents" ELSE "init_vectorstore"
    IN  [raised |-> FALSE, exc |-> "", vectorstore |-> made.vectorstore,
         calls |-> <<Made("get_vectorstore", TRUE), Made(fn, ~made.raised)>>]

\* an index_documents that builds a new index whatever is persisted
index_documents_Rebuild(documents, persisted, embed_ok) ==
    LET made == init_vectorstore(documents, embed_ok)
    IN  [raised |-> made.raised, exc |-> made.exc, vectorstore |-> made.vectorstore,
         calls |-> <<Made("get_vectorstore", TRUE),
                     Made("init_vectorstore", ~made.raised)>>]

\* index_documents(documents): the index it returns or the exception it
\* lets through, and the store calls it made
index_documents(documents, persisted, embed_ok) ==
    LET loaded == get_vectorstore(persisted)
        made == IF ~loaded.isNone
                THEN add_documents(loaded, documents, embed_ok)
                ELSE init_vectorstore(documents, embed_ok)
        fn   == IF ~loaded.isNone THEN "add_documents" ELSE "init_vectorstore"
    IN  [raised |-> made.raised, exc |-> made.exc, vectorstore |-> made.vectorstore,
         calls |-> <<Made("get_vectorstore", TRUE), Made(fn, ~made.raised)>>]

\* Document(page_content = record["text"], metadata = record["metadata"])
DocumentOf(record) == [page_content |-> record.text, metadata |-> record.metadata]

WellFormed(record) == {"text", "metadata"} \subseteq DOMAIN record

NoIndexing(at) ==
    [pc |-> at, file |-> MissingFile, embed_ok |-> TRUE, data |-> <<>>,
     documents |-> <<>>, vectorstore |-> NoneStore, calls |-> <<>>, exc |-> "",
     before |-> NoneStore]

Abort(exc, calls) == [indexing EXCEPT !.pc = "aborted", !.exc = exc, !.calls = calls]

InitIndex ==
    /\ AppOff
    /\ csv = <<>>
    /\ summary = [status |-> "none"]
    /\ disk = NoneStore
    /\ indexing = NoIndexing("ready")

\* python index_documents.py --data-path file, in a world where the
\* embedding works or does not
StartIndexJob ==
    /\ indexing.pc \in {"ready", "done", "aborted"}
    /\ Len(disk.docs) < MaxIndexSize
    /\ \E file \in DataFiles, embed_ok \in BOOLEAN :
          indexing' = [NoIndexing("load") EXCEPT !.file = file, !.embed_ok = embed_ok,
                                                !.before = disk]
    /\ UNCHANGED <<heap, qaVars, appVars, csv, summary, disk>>

\* lines 28-29: open and json.load
LoadData ==
    /\ indexing.pc = "load"
    /\ indexing' =
          IF indexing.file.kind = "missing"
          THEN Abort("FileNotFoundError", <<Made("load", FALSE)>>)
          ELSE IF indexing.file.kind = "invalid"
          THEN Abort("JSONDecodeError", <<Made("load", FALSE)>>)
          ELSE [indexing EXCEPT !.pc = "build", !.data = indexing.file.data,
                                !.calls = <<Made("load", TRUE)>>]
    /\ UNCHANGED <<heap, qaVars, appVars, csv, summary, disk>>

\* lines 31-39: one Document for each record
BuildDocuments ==
    /\ indexing.pc = "build"
    /\ indexing' =
          IF \E i \in DOMAIN indexing.data : ~WellFormed(indexing.data[i])
          THEN Abort("KeyError", Append(indexing.calls, Made("build", FALSE)))
          ELSE [indexing EXCEPT
                  !.pc = "index",
                  !.documents = [i \in DOMAIN indexing.data |->
                                    DocumentOf(indexing.data[i])],
                  !.calls = Append(indexing.calls, Made("build", TRUE))]
    /\ UNCHANGED <<heap, qaVars, appVars, csv, summary, disk>>

\* line 42: vectorstore = index_documents(documents)
IndexDocuments ==
    /\ indexing.pc = "index"
    /\ \E r \in {index_documents(indexing.documents, disk, indexing.embed_ok)} :
          indexing' =
            IF r.raised
            THEN Abort(r.exc, indexing.calls \o r.calls
                                \o <<Made("index_documents", FALSE)>>)
            ELSE [indexing EXCEPT
                    !.pc = "save", !.vectorstore = r.vectorstore,
                    !.calls = indexing.calls \o r.calls
                                \o <<Made("index_documents", TRUE)>>]
    /\ UNCHANGED <<heap, qaVars, appVars, csv, summary, disk>>

\* line 43: save_vectorstore(vectorstore) overwrites the persisted index
SaveVectorstore ==
    /\ indexing.pc = "save"
    /\ disk' = indexing.vectorstore
    /\ indexing' = [indexing EXCEPT
                      !.pc = "print",
                      !.calls = Append(indexing.calls, Made("save_vectorstore", TRUE))]
    /\ UNCHANGED <<heap, qaVars, appVars, csv, summary>>

\* line 45: print("Documents indexed successfully.")
PrintDone ==
    /\ indexing.pc = "print"
    /\ indexing' = [indexing EXCEPT !.pc = "done"]
    /\ UNCHANGED <<heap, qaVars, appVars, csv, summary, disk>>

NextIndex ==
    \/ StartIndexJob
    \/ LoadData
    \/ BuildDocuments
    \/ IndexDocuments
    \/ SaveVectorstore
    \/ PrintDone

SpecIndex == InitIndex /\ [][NextIndex]_vars

----------------------------------------------------------------------------
(* Claims about the indexing job, checked under SpecIndex *)

SaveCalls ==
    {i \in DOMAIN indexing.calls : indexing.calls[i].fn = "save_vectorstore"}

FailedCalls == {i \in DOMAIN indexing.calls : ~indexing.calls[i].ok}

\* C15: the job calls save_vectorstore only after index_documents has
\* returned; when loading the file, building the documents, building the
\* index or adding to it fails, the job is aborted, save_vectorstore is not
\* called and the persisted index is the one the job found.
C15_SaveOnlyAfterIndexed ==
    /\ \A i \in SaveCalls :
          \E j \in 1..(i - 1) :
              indexing.calls[j] = Made("index_documents", TRUE)
    /\ disk # indexing.before => SaveCalls # {}
    /\ FailedCalls # {} =>
          /\ indexing.pc = "aborted"
          /\ SaveCalls = {}
          /\ disk = indexing.before

\* a job aborted because adding to the persisted index failed
C15_Witness ==
    /\ indexing.pc = "aborted"
    /\ ~disk.isNone
    /\ Made("add_documents", FALSE) \in {indexing.calls[i] : i \in DOMAIN indexing.calls}
    /\ SaveCalls = {}

----------------------------------------------------------------------------
(* Claims about the session, third part (checked under Spec) *)

\* the run got a success result from qa_search: one that carries
\* retrieved_count
SuccessResultOf(r) ==
    /\ r.processed
    /\ ~r.out.raised
    /\ "retrieved_count" \in DOMAIN r.out.value

\* C21: a script run adds an assistant turn only when qa_search returned a
\* success result; a run that processes a query without one (index absent,
\* qa_search raised, error result) leaves the conversation as it was plus
\* the user turn of the query, untrimmed; a run that processes nothing adds
\* no turn.
C21_AssistantOnlyOnSuccess ==
    [][/\ (run'.processed /\ SuccessResultOf(run')) =>
            /\ messages'[Len(messages')].role = "assistant"
            /\ messages'[Len(messages')].content = run'.out.value.answer
       /\ (run'.processed /\ ~SuccessResultOf(run')) =>
            messages' = Append(messages, UserMessage(run'.query))
       /\ ~run'.processed => messages' \in {messages, <<>>}]_vars

\* a failed query after which the conversation holds 11 turns, the last a
\* user turn: nothing was trimmed
C21_Witness ==
    /\ run.processed
    /\ ~SuccessResultOf(run)
    /\ Len(messages) = 11
    /\ messages[11] = UserMessage(run.query)

----------------------------------------------------------------------------
(* Claims about qa_search, third part (checked under SpecQA) *)

\* entry is the metadata qa_search returns for the stored document doc
MetadataOf(entry, doc) ==
    /\ DOMAIN entry = DOMAIN StoredMetadata(doc) \cup ScoreKey(doc)
    /\ \A key \in DOMAIN StoredMetadata(doc) \ ScoreKey(doc) :
          entry[key] = StoredMetadata(doc)[key]
    /\ doc.hasScore => entry["similarity_score"] = NumV(doc.similarity_score)

\* C22: for a successful call on an index that does not change during the
\* call, there is one sequence of documents of the index such that
\* document_metadata holds their metadata, entry by entry, and the context
\* section of the prompt holds their texts, in the same order.
C22_MetadataMatchesContext ==
    Succeeded =>
        LET docs == call.vectorstore.docs
            meta == ret.value.document_metadata
        IN  \E ix \in [1..Len(meta) -> DOMAIN docs] :
               /\ \A i \in 1..Len(meta) : MetadataOf(meta[i], docs[ix[i]])
               /\ SectionText(sent.prompt, "context") =
                     Join([i \in 1..Len(meta) |-> docs[ix[i]].page_content],
                          <<"\n", "\n">>)

\* a successful call that retrieved at least two documents, fewer than the
\* index holds, for the query the index ranks in reverse
C22_Witness ==
    /\ Succeeded
    /\ call.query = Q2
    /\ Len(ret.value.document_metadata) >= 2
    /\ Len(ret.value.document_metadata) < Len(call.vectorstore.docs)
    /\ sent.prompt # NoPrompt

----------------------------------------------------------------------------
(* The Latest Interaction section of src/app.py (lines 213-225), drawn at  *)
(* the end of every script run from the conversation state                 *)

\* next((m for m in reversed(messages) if m["role"] == role), None): the
\* position of the last message of that role, 0 for None
LastOfRole(msgs, role) ==
    LET at == {i \in DOMAIN msgs : msgs[i].role = role}
    IN  IF at = {} THEN 0 ELSE CHOOSE i \in at : \A j \in at : j <= i

\* what the section displays: the positions of the question and of the
\* answer shown
LatestInteraction(msgs) ==
    LET last_question == LastOfRole(msgs, "user")
        last_answer   == LastOfRole(msgs, "assistant")
    IN  [displayed |-> Len(msgs) >= 2 /\ last_question # 0 /\ last_answer # 0,
         question  |-> last_question,
         answer    |-> last_answer]

\* C23: whenever the Latest Interaction section is displayed, the assistant
\* turn it shows is the turn that immediately follows the user turn it
\* shows in the conversation state.
C23_LatestPair ==
    LatestInteraction(messages).displayed =>
        LatestInteraction(messages).answer = LatestInteraction(messages).question + 1

----------------------------------------------------------------------------
(* Claims about the indexing job, second part (checked under SpecIndex) *)

\* the job has saved the index it made
Saved == indexing.pc \in {"print", "done"}

\* C24: a job that saved leaves the persisted index holding every document
\* the job found there, in place and in order, followed by one document for
\* each record of the document file, in file order: a new index of just the
\* file's documents when none was persisted, and an index grown by the
\* number of records, earlier copies kept, when one was.
C24_AppendsToExisting ==
    Saved =>
        LET old  == indexing.before.docs
            data == indexing.file.data
        IN  /\ ~disk.isNone
            /\ Len(disk.docs) = Len(old) + Len(data)
            /\ \A i \in DOMAIN old : disk.docs[i] = old[i]
            /\ \A i \in DOMAIN data :
                  /\ disk.docs[Len(old) + i].page_content = data[i].text
                  /\ disk.docs[Len(old) + i].metadata = data[i].metadata
            /\ indexing.before.isNone => old = <<>>

\* the job run a second time on the same file: the index holds every
\* document of the file twice
C24_Witness ==
    /\ Saved
    /\ ~indexing.before.isNone
    /\ indexing.before.docs # <<>>
    /\ disk.docs = indexing.before.docs \o indexing.before.docs

====
